---- MODULE Spec2Model ----
(***************************************************************************)
(* Model of the documentation crawler (app/text_extractor.py) and of the   *)
(* JSONL loader (app/utils.py).                                            *)
(*                                                                         *)
(* Python strings are sequences of one-character strings; the glyph        *)
(* U+1F525 (fire) is written "U+1F525" and counts as one character.        *)
(***************************************************************************)
EXTENDS Integers, Sequences, FiniteSets, TLC

\* ------------------------------------------------------------------------
\* Bounds of the model
\* ------------------------------------------------------------------------

\* Raw documents are concatenations of at most MaxPieces fragments.
MaxPieces == 3

\* ------------------------------------------------------------------------
\* Characters
\* ------------------------------------------------------------------------

NL == "\n"

\* Python's \s on the characters the model uses.
Whitespace == {" ", NL, "\t", "\r"}

LowerLetters ==
  {"a","b","c","d","e","f","g","h","i","j","k","l","m",
   "n","o","p","q","r","s","t","u","v","w","x","y","z"}

\* The character class [a-z_&+-] of text_extractor.py:31.
NameChars == LowerLetters \cup {"_", "&", "+", "-"}

FireGlyph == "U+1F525"

\* emoji.demojize on one character: a glyph becomes its :name:.
DemojizeChar(c) ==
  IF c = FireGlyph THEN <<":", "f", "i", "r", "e", ":">> ELSE <<c>>

\* s[i..Len(s)]
Drop(s, i) == SubSeq(s, i, Len(s))

\* True iff the characters of lit occur in s starting at index i.
OccursAt(s, i, lit) ==
  /\ i >= 1
  /\ i + Len(lit) - 1 <= Len(s)
  /\ SubSeq(s, i, i + Len(lit) - 1) = lit

\* Least j in i..Len(s) with s[j] \in stop, or Len(s)+1 when there is none.
RECURSIVE FirstIn(_, _, _)
FirstIn(s, i, stop) ==
  IF i > Len(s) THEN Len(s) + 1
  ELSE IF s[i] \in stop THEN i
  ELSE FirstIn(s, i + 1, stop)

\* Least j >= i with s[j] \notin keep, or Len(s)+1: the end of a greedy run.
RECURSIVE RunEnd(_, _, _)
RunEnd(s, i, keep) ==
  IF i > Len(s) THEN Len(s) + 1
  ELSE IF s[i] \notin keep THEN i
  ELSE RunEnd(s, i + 1, keep)

\* Least j >= i with s[j] whitespace, or Len(s)+1: the end of \S+ from i.
NonSpaceEnd(s, i) == FirstIn(s, i, Whitespace)

\* ------------------------------------------------------------------------
\* preprocess_text, one regular expression at a time.  Each Sub* is re.sub
\* of that pattern by "": leftmost non-overlapping matches, scanning from i.
\* ------------------------------------------------------------------------

\* re.sub(r"<[^>]*>", "", text)
RECURSIVE SubTags(_, _)
SubTags(s, i) ==
  IF i > Len(s) THEN <<>>
  ELSE IF s[i] = "<" /\ FirstIn(s, i + 1, {">"}) <= Len(s)
       THEN SubTags(s, FirstIn(s, i + 1, {">"}) + 1)
       ELSE <<s[i]>> \o SubTags(s, i + 1)

\* Length of the match of http\S+|www.\S+ at i, or 0.
UrlMatchEnd(s, i) ==
  IF /\ OccursAt(s, i, <<"h", "t", "t", "p">>)
     /\ i + 4 <= Len(s)
     /\ s[i + 4] \notin Whitespace
  THEN NonSpaceEnd(s, i + 4)
  ELSE IF /\ OccursAt(s, i, <<"w", "w", "w">>)
          /\ i + 4 <= Len(s)
          /\ s[i + 3] # NL
          /\ s[i + 4] \notin Whitespace
  THEN NonSpaceEnd(s, i + 4)
  ELSE 0

\* re.sub(r"http\S+|www.\S+", "", text)
RECURSIVE SubUrls(_, _)
SubUrls(s, i) ==
  IF i > Len(s) THEN <<>>
  ELSE IF UrlMatchEnd(s, i) # 0
       THEN SubUrls(s, UrlMatchEnd(s, i))
       ELSE <<s[i]>> \o SubUrls(s, i + 1)

CopyrightLit == <<"C", "o", "p", "y", "r", "i", "g", "h", "t">>

\* re.sub(r"Copyright.*", "", text): . stops at a newline
RECURSIVE SubCopyright(_, _)
SubCopyright(s, i) ==
  IF i > Len(s) THEN <<>>
  ELSE IF OccursAt(s, i, CopyrightLit)
       THEN SubCopyright(s, FirstIn(s, i + 9, {NL}))
       ELSE <<s[i]>> \o SubCopyright(s, i + 1)

\* text.replace("\n", " ")
ReplaceNewlines(s) == [i \in 1..Len(s) |-> IF s[i] = NL THEN " " ELSE s[i]]

\* emoji.demojize(text)
RECURSIVE Demojize(_, _)
Demojize(s, i) ==
  IF i > Len(s) THEN <<>>
  ELSE DemojizeChar(s[i]) \o Demojize(s, i + 1)

\* re.sub(r":[a-z_&+-]+:", "", text)
RECURSIVE SubEmojiNames(_, _)
SubEmojiNames(s, i) ==
  IF i > Len(s) THEN <<>>
  ELSE IF /\ s[i] = ":"
          /\ RunEnd(s, i + 1, NameChars) > i + 1
          /\ RunEnd(s, i + 1, NameChars) <= Len(s)
          /\ s[RunEnd(s, i + 1, NameChars)] = ":"
       THEN SubEmojiNames(s, RunEnd(s, i + 1, NameChars) + 1)
       ELSE <<s[i]>> \o SubEmojiNames(s, i + 1)

preprocess_text(text) ==
  LET t1 == SubTags(text, 1)
      t2 == SubUrls(t1, 1)
      t3 == SubCopyright(t2, 1)
      t4 == ReplaceNewlines(t3)
      t5 == Demojize(t4, 1)
  IN  SubEmojiNames(t5, 1)

\* re.sub(r"\s+", " ", text)
RECURSIVE CollapseSpaces(_, _)
CollapseSpaces(s, i) ==
  IF i > Len(s) THEN <<>>
  ELSE IF s[i] \in Whitespace
       THEN <<" ">> \o CollapseSpaces(s, RunEnd(s, i, Whitespace))
       ELSE <<s[i]>> \o CollapseSpaces(s, i + 1)

\* Greatest j <= i with s[j] not whitespace, or 0.
RECURSIVE LastNonSpace(_, _)
LastNonSpace(s, i) ==
  IF i < 1 THEN 0
  ELSE IF s[i] \notin Whitespace THEN i
  ELSE LastNonSpace(s, i - 1)

\* text.strip()
Strip(s) == SubSeq(s, RunEnd(s, 1, Whitespace), LastNonSpace(s, Len(s)))

\* download_file, lines 49-51: the text of the record that is written.
CleanText(text) == Strip(CollapseSpaces(preprocess_text(text), 1))

\* ------------------------------------------------------------------------
\* json.dumps of a dict of strings, and the parse jsonlines makes of a line
\* ------------------------------------------------------------------------

Quote == "\""
Backslash == "\\"

\* json.dumps writes U+1F525 as its surrogate pair, backslash-u d83d
\* backslash-u dd25.
FireEscape ==
  <<Backslash, "u", "d", "8", "3", "d", Backslash, "u", "d", "d", "2", "5">>

\* A writer that escapes nothing.
EscapeCharRaw(c) == <<c>>

\* json.dumps of one character inside a string (ensure_ascii).
EscapeChar(c) ==
  IF c = Quote THEN <<Backslash, Quote>>
  ELSE IF c = Backslash THEN <<Backslash, Backslash>>
  ELSE IF c = NL THEN <<Backslash, "n">>
  ELSE IF c = "\t" THEN <<Backslash, "t">>
  ELSE IF c = "\r" THEN <<Backslash, "r">>
  ELSE IF c = FireGlyph THEN FireEscape
  ELSE <<c>>

RECURSIVE EscapeFrom(_, _)
EscapeFrom(s, i) ==
  IF i > Len(s) THEN <<>> ELSE EscapeChar(s[i]) \o EscapeFrom(s, i + 1)

\* json.dumps of a str
JsonString(s) == <<Quote>> \o EscapeFrom(s, 1) \o <<Quote>>

\* json.dumps of the items of a dict from index i on: "k": "v", "k": "v"
RECURSIVE JsonItems(_, _)
JsonItems(d, i) ==
  IF i > Len(d) THEN <<>>
  ELSE JsonString(d[i][1]) \o <<":", " ">> \o JsonString(d[i][2])
       \o (IF i < Len(d) THEN <<",", " ">> ELSE <<>>)
       \o JsonItems(d, i + 1)

\* json.dumps(file_dict); a dict is the sequence of its <<key, value>> items.
JsonDumps(d) == <<"{">> \o JsonItems(d, 1) \o <<"}">>

\* The characters of a JSON string body from i up to its closing quote:
\* [ok, val, next], next the index after the closing quote.
RECURSIVE ParseChars(_, _, _)
ParseChars(s, i, acc) ==
  IF i > Len(s) THEN [ok |-> FALSE, val |-> acc, next |-> i]
  ELSE IF s[i] = Quote THEN [ok |-> TRUE, val |-> acc, next |-> i + 1]
  ELSE IF s[i] = Backslash
       THEN IF i + 1 > Len(s) THEN [ok |-> FALSE, val |-> acc, next |-> i]
            ELSE IF s[i + 1] \in {Quote, Backslash}
                 THEN ParseChars(s, i + 2, Append(acc, s[i + 1]))
            ELSE IF s[i + 1] = "n" THEN ParseChars(s, i + 2, Append(acc, NL))
            ELSE IF s[i + 1] = "t" THEN ParseChars(s, i + 2, Append(acc, "\t"))
            ELSE IF s[i + 1] = "r" THEN ParseChars(s, i + 2, Append(acc, "\r"))
            ELSE IF OccursAt(s, i, FireEscape)
                 THEN ParseChars(s, i + 12, Append(acc, FireGlyph))
            ELSE [ok |-> FALSE, val |-> acc, next |-> i]
  ELSE IF s[i] \in {NL, "\t", "\r"}
       THEN [ok |-> FALSE, val |-> acc, next |-> i]
  ELSE ParseChars(s, i + 1, Append(acc, s[i]))

\* A JSON string at i.
ParseString(s, i) ==
  IF i <= Len(s) /\ s[i] = Quote
  THEN ParseChars(s, i + 1, <<>>)
  ELSE [ok |-> FALSE, val |-> <<>>, next |-> i]

\* Index of the first non-blank character from i.
SkipBlanks(s, i) == RunEnd(s, i, {" "})

\* The items of a JSON object from i (after "{" or ","): [ok, val].
RECURSIVE ParseItems(_, _, _)
ParseItems(s, i, acc) ==
  LET k  == ParseString(s, SkipBlanks(s, i))
      c  == SkipBlanks(s, k.next)
      v  == ParseString(s, SkipBlanks(s, c + 1))
      e  == SkipBlanks(s, v.next)
  IN  IF ~k.ok \/ c > Len(s) \/ s[c] # ":" THEN [ok |-> FALSE, val |-> acc]
      ELSE IF ~v.ok \/ e > Len(s) THEN [ok |-> FALSE, val |-> acc]
      ELSE IF s[e] = ","
           THEN ParseItems(s, e + 1, Append(acc, <<k.val, v.val>>))
      ELSE IF s[e] = "}" /\ SkipBlanks(s, e + 1) > Len(s)
           THEN [ok |-> TRUE, val |-> Append(acc, <<k.val, v.val>>)]
      ELSE [ok |-> FALSE, val |-> acc]

\* json.loads of one line holding an object of strings: [ok, val].
JsonLoads(line) ==
  LET b == SkipBlanks(line, 1)
  IN  IF b > Len(line) \/ line[b] # "{" THEN [ok |-> FALSE, val |-> <<>>]
      ELSE IF /\ SkipBlanks(line, b + 1) <= Len(line)
              /\ line[SkipBlanks(line, b + 1)] = "}"
              /\ SkipBlanks(line, SkipBlanks(line, b + 1) + 1) > Len(line)
           THEN [ok |-> TRUE, val |-> <<>>]
      ELSE ParseItems(line, b + 1, <<>>)

\* dict.get(key, default): the last item with that key wins.
RECURSIVE DictGet(_, _, _, _)
DictGet(d, i, key, default) ==
  IF i < 1 THEN default
  ELSE IF d[i][1] = key THEN d[i][2]
  ELSE DictGet(d, i - 1, key, default)

\* The lines of a file: the pieces between newlines, a final newline closing
\* the last line.
RECURSIVE SplitLines(_, _)
SplitLines(s, i) ==
  IF i > Len(s) THEN <<>>
  ELSE <<SubSeq(s, i, FirstIn(s, i, {NL}) - 1)>>
       \o SplitLines(s, FirstIn(s, i, {NL}) + 1)

KeyTitle == <<"t", "i", "t", "l", "e">>
KeyRepoOwner == <<"r", "e", "p", "o", "_", "o", "w", "n", "e", "r">>
KeyRepoName == <<"r", "e", "p", "o", "_", "n", "a", "m", "e">>
KeyText == <<"t", "e", "x", "t">>

\* utils.py:30-36: the Document built from one parsed object.
DocumentOf(obj) ==
  [page_content |-> DictGet(obj, Len(obj), KeyText, <<>>),
   metadata |-> [title      |-> DictGet(obj, Len(obj), KeyTitle, <<>>),
                 repo_owner |-> DictGet(obj, Len(obj), KeyRepoOwner, <<>>),
                 repo_name  |-> DictGet(obj, Len(obj), KeyRepoName, <<>>)]]

\* DocsJSONLLoader.load on the content of a file: [ok, docs]; ok is FALSE
\* when a line is not a JSON object and the reader raises.
RECURSIVE LoadLines(_, _, _)
LoadLines(lines, i, acc) ==
  IF i > Len(lines) THEN [ok |-> TRUE, docs |-> acc]
  ELSE IF ~JsonLoads(lines[i]).ok THEN [ok |-> FALSE, docs |-> acc]
  ELSE LoadLines(lines, i + 1, Append(acc, DocumentOf(JsonLoads(lines[i]).val)))

LoadDocuments(content) == LoadLines(SplitLines(content, 1), 1, <<>>)

\* ------------------------------------------------------------------------
\* Paths, names and the hosting service
\* ------------------------------------------------------------------------

\* Greatest j <= i with s[j] = "/", or 0.
RECURSIVE LastSlash(_, _)
LastSlash(s, i) ==
  IF i < 1 THEN 0
  ELSE IF s[i] = "/" THEN i
  ELSE LastSlash(s, i - 1)

\* os.path.basename(path)
Basename(path) == Drop(path, LastSlash(path, Len(path)) + 1)

\* url.split("/")[-1]
UrlFilename(url) == Drop(url, LastSlash(url, Len(url)) + 1)

\* str.endswith
EndsWith(s, suffix) ==
  /\ Len(suffix) <= Len(s)
  /\ SubSeq(s, Len(s) - Len(suffix) + 1, Len(s)) = suffix

\* The check with the case of the suffix ignored.
IsMarkdownFileAnyCase(file) ==
  /\ file.type = "file"
  /\ \/ EndsWith(file.name, <<".", "m", "d", "x">>)
     \/ EndsWith(file.name, <<".", "m", "d">>)
     \/ EndsWith(file.name, <<".", "M", "D", "X">>)
     \/ EndsWith(file.name, <<".", "M", "D">>)

\* text_extractor.py:96-98
IsMarkdownFile(file) ==
  /\ file.type = "file"
  /\ \/ EndsWith(file.name, <<".", "m", "d", "x">>)
     \/ EndsWith(file.name, <<".", "m", "d">>)

SkipName == <<"z", "h">>

\* The check made on the whole path instead of its last segment.
IsSkippedWholePath(path) == path = SkipName

\* text_extractor.py:82
IsSkipped(path) == Basename(path) = SkipName

Join(path, name) == path \o <<"/">> \o name

\* The address a file of a repository is downloaded from.
DownloadUrl(repo, path) == <<"r", "a", "w", "/">> \o repo \o <<"/">> \o path

\* What the response of a download holds as its text.
TextBody(chars) == [kind |-> "str", chars |-> chars]
NoBody == [kind |-> "none", chars |-> <<>>]

\* Nodes of a repository tree as the hosting service holds it.
FileNode(name, body) ==
  [type |-> "file", name |-> name, status |-> 200, body |-> body,
   children |-> <<>>]
DirNode(name, status, children) ==
  [type |-> "dir", name |-> name, status |-> status, body |-> NoBody,
   children |-> children]
LinkNode(name) ==
  [type |-> "symlink", name |-> name, status |-> 200, body |-> NoBody,
   children |-> <<>>]

\* The entry of a listing for child node n of the directory at path.
EntryOf(repo, path, n) ==
  [name |-> n.name, path |-> Join(path, n.name), type |-> n.type,
   download_url |-> DownloadUrl(repo, Join(path, n.name))]

\* The directories of the tree under node (at nodePath) whose path is path.
RECURSIVE DirsAt(_, _, _)
DirsAt(node, nodePath, path) ==
  IF node.type # "dir" THEN {}
  ELSE IF nodePath = path THEN {node}
  ELSE UNION {DirsAt(node.children[k], Join(nodePath, node.children[k].name), path)
                : k \in 1..Len(node.children)}

\* The files of the tree under node whose download address is url.
RECURSIVE FilesAt(_, _, _, _)
FilesAt(repo, node, nodePath, url) ==
  IF node.type = "file"
  THEN IF DownloadUrl(repo, nodePath) = url THEN {node} ELSE {}
  ELSE UNION {FilesAt(repo, node.children[k],
                      Join(nodePath, node.children[k].name), url)
                : k \in 1..Len(node.children)}

\* The service's answer to a listing request: [status_code, json].
ListingResponse(repo_info, root, path) ==
  LET found == DirsAt(root, repo_info.path, path)
  IN  IF found = {} THEN [status_code |-> 404, json |-> <<>>]
      ELSE LET d == CHOOSE n \in found : TRUE
           IN  IF d.status # 200
               THEN [status_code |-> d.status, json |-> <<>>]
               ELSE [status_code |-> 200,
                     json |-> [k \in 1..Len(d.children) |->
                                 EntryOf(repo_info.repo, path, d.children[k])]]

\* The text of the service's answer to a download request.
DownloadResponse(repo_info, root, url) ==
  LET found == FilesAt(repo_info.repo, root, repo_info.path, url)
  IN  IF found = {} THEN NoBody ELSE (CHOOSE n \in found : TRUE).body

\* ------------------------------------------------------------------------
\* The repository trees and raw documents the model is run on
\* ------------------------------------------------------------------------

\* Nesting depth of the directories below a repository's root path.
MaxDepth == 2

Statuses == {200, 404}

NameGuide == <<"g", "u", "i", "d", "e">>
NameEn == <<"e", "n">>
NameA == <<"a", ".", "m", "d">>
NameB == <<"b", ".", "m", "d", "x">>
NameC == <<"c", ".", "m", "d">>
NameE == <<"e", ".", "m", "d">>
NameUpper == <<"r", ".", "M", "D">>
NameTxt == <<"n", ".", "t", "x", "t">>
NameLink == <<"l", ".", "m", "d">>
NameDirMd == <<"v", ".", "m", "d">>

\* <b>Hi http://x U+1F525</b> newline Copyright 2
BodyA ==
  <<"<", "b", ">", "H", "i", " ", "h", "t", "t", "p", ":", "/", "/", "x", " ",
    FireGlyph, "<", "/", "b", ">", NL, "C", "o", "p", "y", "r", "i", "g", "h",
    "t", " ", "2">>
\* say "a\b"
BodyB == <<"s", "a", "y", " ", Quote, "a", Backslash, "b", Quote>>
BodyC == <<"c", " ", NL, " ", "c">>
BodyE == <<"e">>

LeafFiles ==
  {FileNode(NameA, TextBody(BodyA)), FileNode(NameA, NoBody),
   FileNode(NameB, TextBody(BodyB)), FileNode(NameUpper, TextBody(BodyA)),
   FileNode(NameTxt, TextBody(BodyA))}

\* The listings a directory with depth levels of directories below it may have.
RECURSIVE Listings(_)
Listings(depth) ==
  IF depth = 0 THEN {<<f>> : f \in LeafFiles}
  ELSE {<<DirNode(nm, st, sub), LinkNode(NameLink),
          FileNode(NameC, TextBody(BodyC)),
          DirNode(NameDirMd, st2, <<FileNode(NameE, TextBody(BodyE))>>)>> :
          nm \in {SkipName, NameEn}, st \in Statuses, st2 \in Statuses,
          sub \in Listings(depth - 1)}

RootPaths == {NameGuide, Join(NameGuide, SkipName)}

OwnerAcme == <<"a", "c", "m", "e">>
RepoDocs == <<"d", "o", "c", "s">>
RepoWiki == <<"w", "i", "k", "i">>

\* A line left in the output file by an earlier run.
StaleLine == <<"{", Quote, "o", "l", "d", Quote, ":", " ", Quote, Quote, "}", NL>>

\* The output file and its directory before the run.
InitialDisks ==
  {[dir |-> FALSE, exists |-> FALSE, content |-> <<>>],
   [dir |-> TRUE, exists |-> FALSE, content |-> <<>>],
   [dir |-> TRUE, exists |-> TRUE, content |-> StaleLine]}

\* Fragments raw documents are built from.
Pieces ==
  {<<"h", "t">>, <<"t", "p", ":", "x">>, <<":", "a", ":">>, <<":">>,
   <<"<", "b", ">">>, <<"<">>, <<" ">>, <<NL>>,
   <<"C", "o", "p", "y">>, <<"r", "i", "g", "h", "t">>,
   <<"w", "w", "w">>, <<"x">>, <<FireGlyph>>}

\* The concatenations of at most n fragments.
RECURSIVE Concats(_)
Concats(n) ==
  IF n = 0 THEN {<<>>}
  ELSE Concats(n - 1) \cup {p \o q : p \in Pieces, q \in Concats(n - 1)}

\* ------------------------------------------------------------------------
\* State
\* ------------------------------------------------------------------------

VARIABLES
  hasToken,   \* GITHUB_TOKEN is set in the environment
  repos,      \* config["github"]["repos"]: a sequence of [owner, repo, path]
  remote,     \* the tree the hosting service holds for each repository
  disk,       \* [dir, exists, content]: data/ and the dated JSONL file
  pc,         \* where main is: start, walking, done, aborted (off: not run)
  repoIdx,    \* index of the next repository of main's loop
  stack,      \* the frames of process_directory: [repo, path, files, i]
  calls,      \* every process_directory call made: [repo, path]
  listed,     \* every listing request sent: [repo, path, status_code]
  fetched,    \* every download request sent: [repo, url, kind]
  records,    \* every file_dict download_file has written
  console,    \* the red and yellow lines printed
  loaded,     \* no, ok or raised: the outcome of DocsJSONLLoader.load
  documents,  \* the list load returned
  raw,        \* a raw document text
  pre,        \* preprocess_text(raw)
  once,       \* the text download_file writes for raw
  twice,      \* the text download_file writes for once
  tpc         \* input, once, twice (idle: no text is being processed)

crawlVars ==
  <<hasToken, repos, remote, disk, pc, repoIdx, stack, calls, listed, fetched,
    records, console, loaded, documents>>
textVars == <<raw, pre, once, twice, tpc>>
vars == <<crawlVars, textVars>>

Init ==
  /\ hasToken \in BOOLEAN
  /\ \E path \in RootPaths, st \in Statuses, listing \in Listings(MaxDepth) :
       /\ repos = <<[owner |-> OwnerAcme, repo |-> RepoDocs, path |-> path],
                    [owner |-> OwnerAcme, repo |-> RepoWiki, path |-> NameEn]>>
       /\ remote = <<DirNode(Basename(path), st, listing),
                     DirNode(NameEn, 200, <<FileNode(NameE, TextBody(BodyE))>>)>>
  /\ disk \in InitialDisks
  /\ pc = "start"
  /\ repoIdx = 1
  /\ stack = <<>>
  /\ calls = <<>>
  /\ listed = <<>>
  /\ fetched = <<>>
  /\ records = <<>>
  /\ console = <<>>
  /\ loaded = "no"
  /\ documents = <<>>
  /\ raw = <<>>
  /\ pre = <<>>
  /\ once = <<>>
  /\ twice = <<>>
  /\ tpc = "idle"

\* ------------------------------------------------------------------------
\* main
\* ------------------------------------------------------------------------

\* utils.create_dir alone: the file of an earlier run is kept.
KeptDisk(d) == [d EXCEPT !.dir = TRUE]

\* utils.create_dir followed by utils.remove_existing_file
FreshDisk(d) == [dir |-> TRUE, exists |-> FALSE, content |-> <<>>]

\* main, lines 115-119: no token, ValueError
MainAbort ==
  /\ pc = "start"
  /\ ~hasToken
  /\ pc' = "aborted"
  /\ UNCHANGED <<hasToken, repos, remote, disk, repoIdx, stack, calls, listed,
                 fetched, records, console, loaded, documents, textVars>>

\* main without its check of the token.
MainSetupUnchecked ==
  /\ pc = "start"
  /\ disk' = FreshDisk(disk)
  /\ pc' = "walking"
  /\ UNCHANGED <<hasToken, repos, remote, repoIdx, stack, calls, listed,
                 fetched, records, console, loaded, documents, textVars>>

\* main, lines 115-130: up to the loop over the repositories
MainSetup ==
  /\ pc = "start"
  /\ hasToken
  /\ disk' = FreshDisk(disk)
  /\ pc' = "walking"
  /\ UNCHANGED <<hasToken, repos, remote, repoIdx, stack, calls, listed,
                 fetched, records, console, loaded, documents, textVars>>

\* A failed listing request that ends the walks of all enclosing directories.
AfterListingErrorUnwind(stk) == <<>>

\* The stack after a listing request failed: the call returns.
AfterListingError(stk) == stk

\* process_directory from its first line to the start of its loop, called
\* with the frames stk below it.
EnterDirectory(ri, path, stk) ==
  /\ calls' = Append(calls, [repo |-> ri, path |-> path])
  /\ IF IsSkipped(path)
     THEN /\ console' = Append(console, [colour |-> "yellow", what |-> "skip"])
          /\ stack' = stk
          /\ listed' = listed
     ELSE LET response == ListingResponse(repos[ri], remote[ri], path)
          IN  /\ listed' = Append(listed, [repo |-> ri, path |-> path,
                                           status_code |-> response.status_code])
              /\ IF response.status_code = 200
                 THEN /\ stack' = Append(stk, [repo |-> ri, path |-> path,
                                               files |-> response.json, i |-> 1])
                      /\ console' = console
                 ELSE /\ stack' = AfterListingError(stk)
                      /\ console' = Append(console,
                                           [colour |-> "red", what |-> "listing"])

Top == stack[Len(stack)]

\* A loop that stays on its entry.
NotAdvanced == stack

\* The stack with the loop of its top frame moved to the next entry.
Advanced == [stack EXCEPT ![Len(stack)].i = @ + 1]

\* main, lines 132-138: the next repository of the loop
MainNextRepo ==
  /\ pc = "walking"
  /\ stack = <<>>
  /\ repoIdx <= Len(repos)
  /\ EnterDirectory(repoIdx, repos[repoIdx].path, <<>>)
  /\ repoIdx' = repoIdx + 1
  /\ UNCHANGED <<hasToken, repos, remote, disk, pc, fetched, records, loaded,
                 documents, textVars>>

\* main returns after the last repository
MainDone ==
  /\ pc = "walking"
  /\ stack = <<>>
  /\ repoIdx > Len(repos)
  /\ pc' = "done"
  /\ UNCHANGED <<hasToken, repos, remote, disk, repoIdx, stack, calls, listed,
                 fetched, records, console, loaded, documents, textVars>>

\* ------------------------------------------------------------------------
\* download_file and process_directory
\* ------------------------------------------------------------------------

\* A check that lets every answer through.
IsTextAlways(text) == TRUE

\* download_file, line 48
IsText(text) == text.kind = "str"

\* download_file, lines 53-58
FileDict(url, repo_info, text) ==
  <<<<KeyTitle, UrlFilename(url)>>,
    <<KeyRepoOwner, repo_info.owner>>,
    <<KeyRepoName, repo_info.repo>>,
    <<KeyText, text>>>>

\* download_file, lines 60-61: open(..., "a") and write one line
AppendLine(d, line) ==
  [dir |-> d.dir, exists |-> TRUE, content |-> d.content \o line \o <<NL>>]

\* download_file(url, repo_info, jsonl_file_name)
DownloadFile(ri, url) ==
  LET text == DownloadResponse(repos[ri], remote[ri], url)
      dict == FileDict(url, repos[ri], CleanText(text.chars))
  IN  /\ fetched' = Append(fetched, [repo |-> ri, url |-> url, kind |-> text.kind])
      /\ IF IsText(text)
         THEN /\ disk' = AppendLine(disk, JsonDumps(dict))
              /\ records' = Append(records, dict)
              /\ console' = console
         ELSE /\ console' = Append(console, [colour |-> "red", what |-> "text"])
              /\ UNCHANGED <<disk, records>>

InLoop == pc = "walking" /\ stack # <<>> /\ Top.i <= Len(Top.files)

\* process_directory, lines 96-101: a Markdown file is downloaded
DownloadEntry ==
  /\ InLoop
  /\ IsMarkdownFile(Top.files[Top.i])
  /\ DownloadFile(Top.repo, Top.files[Top.i].download_url)
  /\ stack' = Advanced
  /\ UNCHANGED <<hasToken, repos, remote, pc, repoIdx, calls, listed, loaded,
                 documents, textVars>>

\* process_directory, lines 102-105: a directory is walked
RecurseEntry ==
  /\ InLoop
  /\ ~IsMarkdownFile(Top.files[Top.i])
  /\ Top.files[Top.i].type = "dir"
  /\ EnterDirectory(Top.repo, Top.files[Top.i].path, Advanced)
  /\ UNCHANGED <<hasToken, repos, remote, disk, pc, repoIdx, fetched, records,
                 loaded, documents, textVars>>

\* process_directory, lines 95-105: any other entry is passed over
IgnoreEntry ==
  /\ InLoop
  /\ ~IsMarkdownFile(Top.files[Top.i])
  /\ Top.files[Top.i].type # "dir"
  /\ stack' = Advanced
  /\ UNCHANGED <<hasToken, repos, remote, disk, pc, repoIdx, calls, listed,
                 fetched, records, console, loaded, documents, textVars>>

\* process_directory, line 106: the loop is over and the call returns
ReturnFromDirectory ==
  /\ pc = "walking"
  /\ stack # <<>>
  /\ Top.i > Len(Top.files)
  /\ stack' = SubSeq(stack, 1, Len(stack) - 1)
  /\ UNCHANGED <<hasToken, repos, remote, disk, pc, repoIdx, calls, listed,
                 fetched, records, console, loaded, documents, textVars>>

\* DocsJSONLLoader(file).load() once the crawl command has ended
Load ==
  /\ pc \in {"done", "aborted"}
  /\ loaded = "no"
  /\ IF disk.exists /\ LoadDocuments(disk.content).ok
     THEN /\ loaded' = "ok"
          /\ documents' = LoadDocuments(disk.content).docs
     ELSE /\ loaded' = "raised"
          /\ documents' = documents
  /\ UNCHANGED <<hasToken, repos, remote, disk, pc, repoIdx, stack, calls,
                 listed, fetched, records, console, textVars>>

Next ==
  \/ MainAbort
  \/ MainSetup
  \/ MainNextRepo
  \/ MainDone
  \/ DownloadEntry
  \/ RecurseEntry
  \/ IgnoreEntry
  \/ ReturnFromDirectory
  \/ Load

Spec == Init /\ [][Next]_vars

\* ------------------------------------------------------------------------
\* download_file's text pipeline on its own: the text written for a raw
\* document, and the text written when that text is the raw document again
\* ------------------------------------------------------------------------

TextInit ==
  /\ hasToken = FALSE
  /\ repos = <<>>
  /\ remote = <<>>
  /\ disk = [dir |-> FALSE, exists |-> FALSE, content |-> <<>>]
  /\ pc = "off"
  /\ repoIdx = 1
  /\ stack = <<>>
  /\ calls = <<>>
  /\ listed = <<>>
  /\ fetched = <<>>
  /\ records = <<>>
  /\ console = <<>>
  /\ loaded = "no"
  /\ documents = <<>>
  /\ raw \in Concats(MaxPieces)
  /\ pre = <<>>
  /\ once = <<>>
  /\ twice = <<>>
  /\ tpc = "input"

\* download_file, lines 49-51, on raw
NormalizeOnce ==
  /\ tpc = "input"
  /\ pre' = preprocess_text(raw)
  /\ once' = CleanText(raw)
  /\ tpc' = "once"
  /\ UNCHANGED <<crawlVars, raw, twice>>

\* download_file, lines 49-51, on the text it produced
NormalizeTwice ==
  /\ tpc = "once"
  /\ twice' = CleanText(once)
  /\ tpc' = "twice"
  /\ UNCHANGED <<crawlVars, raw, pre, once>>

TextNext ==
  \/ NormalizeOnce
  \/ NormalizeTwice

TextSpec == TextInit /\ [][TextNext]_vars

\* ------------------------------------------------------------------------
\* Vocabulary of the properties
\* ------------------------------------------------------------------------

IsPrefixOf(a, b) == Len(a) <= Len(b) /\ SubSeq(b, 1, Len(a)) = a

\* The pieces of s between slashes, from index i on.
RECURSIVE Segments(_, _)
Segments(s, i) ==
  IF FirstIn(s, i, {"/"}) > Len(s) THEN <<Drop(s, i)>>
  ELSE <<SubSeq(s, i, FirstIn(s, i, {"/"}) - 1)>>
       \o Segments(s, FirstIn(s, i, {"/"}) + 1)

FinalSegment(path) == Segments(path, 1)[Len(Segments(path, 1))]

\* Path q is path p or lies below it.
Beneath(q, p) == q = p \/ IsPrefixOf(p \o <<"/">>, q)

\* The download address url is that of a file below path p of repository ri.
UrlBeneath(url, ri, p) ==
  IsPrefixOf(DownloadUrl(repos[ri].repo, p) \o <<"/">>, url)

\* The download requests that were answered with a text.
TextFetches == SelectSeq(fetched, LAMBDA f : f.kind = "str")

\* The lines of the output file, one per record.
RECURSIVE LinesOf(_, _)
LinesOf(recs, i) ==
  IF i > Len(recs) THEN <<>>
  ELSE JsonDumps(recs[i]) \o <<NL>> \o LinesOf(recs, i + 1)

\* Every record on file is the record of one answered download, in order.
RecordsAreFetches ==
  /\ Len(records) = Len(TextFetches)
  /\ \A k \in 1..Len(records) :
       /\ DictGet(records[k], 4, KeyTitle, <<>>) = UrlFilename(TextFetches[k].url)
       /\ DictGet(records[k], 4, KeyRepoName, <<>>) = repos[TextFetches[k].repo].repo
  /\ pc \in {"walking", "done"} => disk.content = LinesOf(records, 1)

\* The record of the file downloaded from url has been written.
HasRecord(ri, url) ==
  \E k \in 1..Len(TextFetches) :
    /\ TextFetches[k].url = url
    /\ TextFetches[k].repo = ri
    /\ k <= Len(records)
    /\ DictGet(records[k], 4, KeyTitle, <<>>) = UrlFilename(url)
    /\ IsPrefixOf(LinesOf(SubSeq(records, 1, k), 1), disk.content)

\* A name ending in .md or .mdx, in exactly that case.
HasMarkdownSuffix(name) ==
  \/ Len(name) >= 3 /\ SubSeq(name, Len(name) - 2, Len(name)) = <<".", "m", "d">>
  \/ Len(name) >= 4
     /\ SubSeq(name, Len(name) - 3, Len(name)) = <<".", "m", "d", "x">>

\* The Markdown files of the tree under node (a directory at nodePath) that
\* are reached through directories which are not named zh and list with 200:
\* a set of [repo, url, name, body].
RECURSIVE OpenFiles(_, _, _)
OpenFiles(ri, node, nodePath) ==
  IF node.type = "file"
  THEN IF HasMarkdownSuffix(node.name)
       THEN {[repo |-> ri, url |-> DownloadUrl(repos[ri].repo, nodePath),
              name |-> node.name, body |-> node.body]}
       ELSE {}
  ELSE IF node.type # "dir" \/ node.status # 200 \/ FinalSegment(nodePath) = SkipName
  THEN {}
  ELSE UNION {OpenFiles(ri, node.children[k], Join(nodePath, node.children[k].name))
                : k \in 1..Len(node.children)}

AllOpenFiles ==
  UNION {OpenFiles(ri, remote[ri], repos[ri].path) : ri \in 1..Len(repos)}

\* The records a walk of the tree under node writes, in discovery order:
\* depth first, the entries of a listing in their order.
RECURSIVE Discovery(_, _, _, _)
Discovery(ri, node, nodePath, k) ==
  IF node.type = "file"
  THEN IF HasMarkdownSuffix(node.name) /\ node.body.kind = "str"
       THEN <<<<<<KeyTitle, node.name>>,
                <<KeyRepoOwner, repos[ri].owner>>,
                <<KeyRepoName, repos[ri].repo>>,
                <<KeyText, CleanText(node.body.chars)>>>>>>
       ELSE <<>>
  ELSE IF node.type # "dir" \/ node.status # 200 \/ FinalSegment(nodePath) = SkipName
  THEN <<>>
  ELSE IF k > Len(node.children) THEN <<>>
  ELSE Discovery(ri, node.children[k], Join(nodePath, node.children[k].name), 1)
       \o Discovery(ri, node, nodePath, k + 1)

RECURSIVE DiscoveryOfRun(_)
DiscoveryOfRun(ri) ==
  IF ri > Len(repos) THEN <<>>
  ELSE Discovery(ri, remote[ri], repos[ri].path, 1) \o DiscoveryOfRun(ri + 1)

\* The entries of the listings that were returned with status 200.
ListedEntries ==
  UNION {{[repo |-> listed[j].repo, entry |-> e] :
            e \in {ListingResponse(repos[listed[j].repo], remote[listed[j].repo],
                                   listed[j].path).json[k] :
                     k \in 1..Len(ListingResponse(repos[listed[j].repo],
                                                  remote[listed[j].repo],
                                                  listed[j].path).json)}} :
           j \in {i \in 1..Len(listed) : listed[i].status_code = 200}}

\* The text the service answers a download of entry e with.
BodyOfEntry(le) ==
  DownloadResponse(repos[le.repo], remote[le.repo], le.entry.download_url)

\* ------------------------------------------------------------------------
\* Properties
\* ------------------------------------------------------------------------

\* C1: whenever process_directory is called with a path whose final segment
\* is zh, no listing request is sent for that path or below it, no download
\* is requested for a file below it, and every record on file stems from a
\* download that was requested, so none stems from a file below it.
C1_SkippedSubtreeUntouched ==
  /\ \A k \in 1..Len(calls) :
       FinalSegment(calls[k].path) = SkipName =>
         /\ \A j \in 1..Len(listed) :
              ~(listed[j].repo = calls[k].repo
                /\ Beneath(listed[j].path, calls[k].path))
         /\ \A j \in 1..Len(fetched) :
              ~(fetched[j].repo = calls[k].repo
                /\ UrlBeneath(fetched[j].url, calls[k].repo, calls[k].path))
  /\ RecordsAreFetches

\* A finished run that met, below the root, a directory named zh which lists
\* with 200 and holds a Markdown file, and that wrote records elsewhere.
C1_Witness ==
  /\ pc = "done"
  /\ records # <<>>
  /\ \E k \in 1..Len(calls) :
       /\ FinalSegment(calls[k].path) = SkipName
       /\ calls[k].path # repos[calls[k].repo].path
       /\ \E d \in DirsAt(remote[calls[k].repo], repos[calls[k].repo].path,
                          calls[k].path) :
            /\ d.status = 200
            /\ \E c \in 1..Len(d.children) :
                 d.children[c].type = "file"
                 /\ HasMarkdownSuffix(d.children[c].name)
                 /\ d.children[c].body.kind = "str"

\* C2 as stated: once the run is over, every Markdown file whose ancestor
\* directories all listed with 200 has its record on file, whatever listing
\* requests failed elsewhere.
C2_EveryOpenFileWritten ==
  pc = "done" => \A f \in AllOpenFiles : HasRecord(f.repo, f.url)

\* C2, amended: once the run is over, every Markdown file whose ancestor
\* directories all listed with 200 and whose download was answered with a
\* text has its record on file, whatever listing requests failed elsewhere.
C2_FailureIsolated ==
  pc = "done" =>
    \A f \in AllOpenFiles : f.body.kind = "str" => HasRecord(f.repo, f.url)

\* A finished run in which a listing below the root failed and in which
\* files of the same repository and of the next one were written.
C2_Witness ==
  /\ pc = "done"
  /\ \E j \in 1..Len(listed) :
       listed[j].status_code # 200 /\ listed[j].path # repos[listed[j].repo].path
  /\ \E f \in AllOpenFiles : f.repo = 1 /\ HasRecord(f.repo, f.url)
  /\ \E f \in AllOpenFiles : f.repo = 2 /\ HasRecord(f.repo, f.url)

\* C3 as stated: an entry of a returned listing never has a record unless it
\* is a file named *.md or *.mdx, and once the run is over every such entry
\* has one.
C3_RecordIffMarkdownFile ==
  \A le \in ListedEntries :
    /\ HasRecord(le.repo, le.entry.download_url) =>
         le.entry.type = "file" /\ HasMarkdownSuffix(le.entry.name)
    /\ pc = "done" /\ le.entry.type = "file" /\ HasMarkdownSuffix(le.entry.name)
         => HasRecord(le.repo, le.entry.download_url)

\* C3, amended: an entry of a returned listing never has a record unless it
\* is a file named *.md or *.mdx, and once the run is over every such entry
\* whose download was answered with a text has one.
C3_RecordIffMarkdownText ==
  \A le \in ListedEntries :
    /\ HasRecord(le.repo, le.entry.download_url) =>
         /\ le.entry.type = "file"
         /\ HasMarkdownSuffix(le.entry.name)
         /\ BodyOfEntry(le).kind = "str"
    /\ /\ pc = "done"
       /\ le.entry.type = "file"
       /\ HasMarkdownSuffix(le.entry.name)
       /\ BodyOfEntry(le).kind = "str"
       => HasRecord(le.repo, le.entry.download_url)

\* A finished run whose listings held r.MD, a symlink and a directory named
\* *.md, none with a record, and a *.mdx file with one.
C3_Witness ==
  /\ pc = "done"
  /\ \E le \in ListedEntries :
       le.entry.name = NameUpper /\ ~HasRecord(le.repo, le.entry.download_url)
  /\ \E le \in ListedEntries :
       le.entry.type = "symlink" /\ ~HasRecord(le.repo, le.entry.download_url)
  /\ \E le \in ListedEntries :
       /\ le.entry.type = "dir"
       /\ HasMarkdownSuffix(le.entry.name)
       /\ ~HasRecord(le.repo, le.entry.download_url)
  /\ \E le \in ListedEntries : le.entry.name = NameC
                               /\ HasRecord(le.repo, le.entry.download_url)

\* The Document a written record stands for.
DocumentOfRecord(rec) ==
  [page_content |-> rec[4][2],
   metadata |-> [title |-> rec[1][2], repo_owner |-> rec[2][2],
                 repo_name |-> rec[3][2]]]

C7_SoftFailure ==
  [][(/\ Len(fetched') = Len(fetched) + 1
      /\ fetched'[Len(fetched')].kind # "str")
     => /\ disk' = disk
        /\ records' = records
        /\ console' = Append(console, [colour |-> "red", what |-> "text"])
        /\ pc' = "walking"
        /\ stack' = Advanced]_vars

\* A download answered with no text was followed by another download.
C7_Witness ==
  \E k \in 1..Len(fetched) :
    fetched[k].kind # "str" /\ k < Len(fetched) /\ fetched[Len(fetched)].kind = "str"

\* C8: without a token the run aborts and no listing or download request is
\* ever sent and no record written; and a run aborts only without a token.
C8_MissingTokenIsTheOnlyAbort ==
  /\ ~hasToken =>
       /\ pc \in {"start", "aborted"}
       /\ calls = <<>> /\ listed = <<>> /\ fetched = <<>> /\ records = <<>>
  /\ pc = "aborted" => ~hasToken

\* A run that aborted, its file still as an earlier run left it.
C8_Witness == pc = "aborted" /\ disk.content = StaleLine

\* C9: from the start of the crawl on, the file holds exactly the lines of
\* the records written so far, these are an initial part of the discovery
\* order of the run and all of it at the end, and a step only ever appends
\* to the file.
C9_AppendOnlyInOrder ==
  [][pc' \in {"walking", "done"} =>
       /\ disk'.content = LinesOf(records', 1)
       /\ IsPrefixOf(records', DiscoveryOfRun(1))
       /\ pc' = "done" => records' = DiscoveryOfRun(1)
       /\ pc \in {"walking", "done"} =>
            IsPrefixOf(disk.content, disk'.content)]_vars

\* A finished run that wrote records of both repositories, from three
\* directories of the first.
C9_Witness ==
  /\ pc = "done"
  /\ Len(records) >= 4
  /\ records[Len(records)][3][2] = RepoWiki
  /\ records[1][3][2] = RepoDocs

\* No directory is walked twice and no listing request is sent twice.
NoRepeatedListing ==
  /\ \A i, j \in 1..Len(listed) :
       listed[i].repo = listed[j].repo /\ listed[i].path = listed[j].path => i = j
  /\ \A i, j \in 1..Len(calls) : calls[i] = calls[j] => i = j

\* An upper bound of the steps that handling the entry of node takes.
RECURSIVE Weight(_)
RECURSIVE WeightFrom(_, _)
Weight(node) ==
  IF node.type = "dir" THEN 2 + WeightFrom(node.children, 1) ELSE 1
WeightFrom(nodes, k) ==
  IF k > Len(nodes) THEN 0 ELSE Weight(nodes[k]) + WeightFrom(nodes, k + 1)

\* The steps frame f of the stack has left: its entries from f.i on and
\* its return.
FrameWork(f) ==
  LET d == CHOOSE n \in DirsAt(remote[f.repo], repos[f.repo].path, f.path) : TRUE
  IN  1 + WeightFrom(d.children, f.i)

RECURSIVE StackWork(_)
StackWork(k) == IF k > Len(stack) THEN 0 ELSE FrameWork(stack[k]) + StackWork(k + 1)

\* An upper bound of the steps the run and the load after it have left.
WorkLeft ==
  (IF pc = "start" THEN 1 ELSE 0)
  + (IF pc \in {"start", "walking"}
     THEN 1 + WeightFrom(remote, repoIdx) + StackWork(1) ELSE 0)
  + (IF loaded = "no" THEN 1 ELSE 0)

\* The run can take a step: the condition of one of main's or
\* process_directory's branches holds.
CanStep ==
  \/ pc = "start"
  \/ pc = "walking" /\ stack = <<>>
  \/ InLoop
  \/ pc = "walking" /\ stack # <<>> /\ Top.i > Len(Top.files)

\* C10: a run that has the token ends in done: until then it is never
\* aborted and can always take a step, and every step lowers the number
\* WorkLeft >= 0, so only finitely many steps are taken; and no directory
\* is walked or listed twice, so no failed listing is retried.
C10_EndsWithoutRetry ==
  [][/\ WorkLeft' < WorkLeft
     /\ WorkLeft' >= 0
     /\ hasToken /\ pc' # "done" => pc' = "walking" /\ CanStep'
     /\ NoRepeatedListing']_vars

\* A finished run with failed and successful listings.
C10_Witness ==
  /\ pc = "done"
  /\ Len(listed) >= 4
  /\ \E j \in 1..Len(listed) : listed[j].status_code # 200

\* ------------------------------------------------------------------------
\* Properties of the text pipeline
\* ------------------------------------------------------------------------

\* s holds < and a later >.
HasTag(s) == \E i, j \in 1..Len(s) : i < j /\ s[i] = "<" /\ s[j] = ">"

\* Index i starts a token of s: a run of characters that are not whitespace.
TokenStart(s, i) == s[i] \notin Whitespace /\ (i = 1 \/ s[i - 1] \in Whitespace)

\* s holds a token that starts with http, or with www., and goes on.
HasUrl(s) ==
  \E i \in 1..Len(s) :
    /\ TokenStart(s, i)
    /\ \/ OccursAt(s, i, <<"h", "t", "t", "p">>)
          /\ i + 4 <= Len(s) /\ s[i + 4] \notin Whitespace
       \/ OccursAt(s, i, <<"w", "w", "w", ".">>)
          /\ i + 4 <= Len(s) /\ s[i + 4] \notin Whitespace

HasCopyright(s) == \E i \in 1..Len(s) : OccursAt(s, i, CopyrightLit)
HasNewline(s) == \E i \in 1..Len(s) : s[i] = NL
HasEmoji(s) == \E i \in 1..Len(s) : s[i] = FireGlyph

HasConstruct(s) ==
  HasTag(s) \/ HasUrl(s) \/ HasCopyright(s) \/ HasNewline(s) \/ HasEmoji(s)

\* s with its glyphs taken out.
WithoutEmoji(s) == SelectSeq(s, LAMBDA c : c # FireGlyph)

\* C5: for an input that holds a tag, a URL, a Copyright marker, an emoji or
\* a newline, the output of preprocess_text holds none of these; and when
\* the constructs of the input are only newlines and emoji, the output is
\* the input with each newline turned into a space and the emoji taken out.
C5_ConstructsRemovedRestKept ==
  tpc \in {"once", "twice"} /\ HasConstruct(raw) =>
    /\ ~HasConstruct(pre)
    /\ ~(HasTag(raw) \/ HasUrl(raw) \/ HasCopyright(raw))
         => pre = WithoutEmoji(ReplaceNewlines(raw))

\* C6: the text written for a text that was itself written is that text.
C6_Idempotent == tpc = "twice" => twice = once

====
